---- MODULE Spec2Model ----
(***************************************************************************)
(* The unified token ledger of luckydraw-app: the server actions of        *)
(* src/src/actions/unifiedTokenActions.ts and the referral actions of      *)
(* src/unnamed/part_001, over three Firestore collections: unifiedTokens,  *)
(* users and transactions.                                                 *)
(*                                                                         *)
(* Amounts are decimals held as integers, in hundredths (200 is 2.00), so  *)
(* that depositAmount * 0.05 is an integer of the model for the deposits   *)
(* it draws (multiples of 0.20).  Time is counted in days, and the clock   *)
(* moves by one referral expiry period at a time.  Timestamps that are     *)
(* written and never read by any action (approvedAt, rejectedAt,           *)
(* updatedAt, migratedAt, lastReferralDate) are not part of the state.     *)
(* Token ids are the positions in the collection.                          *)
(*                                                                         *)
(* A server action is one step for each database call it awaits, and other *)
(* requests may run, and the clock may move, between two of its steps:     *)
(* approveTokenAction and approveReferralCommissionAction read and then    *)
(* write; migrateTransactionToTokenAction reads, adds the token and then   *)
(* marks the transaction.  An action that reads the clock before its first *)
(* await has a step for the call itself, which keeps the time it read:     *)
(* createUnifiedTokenAction (the call, addDoc), cleanupExpiredTokensAction *)
(* (the call, the query, the batch), analyzeReferralPerformanceAction (the *)
(* call, the users, the tokens).  processDepositReferralAction is the      *)
(* referrer's query, after which the transaction's callback reads the      *)
(* clock and queues the writes, and the commit.  The other actions await   *)
(* one call and are one step; a one-step call is taken when there is room  *)
(* for a call in flight.                                                   *)
(* Every database call may fail: the input "fail" of the step that makes   *)
(* it.  That covers what depends on the database's settings, which are not *)
(* in the source: addDoc with a field that is undefined (a token created   *)
(* with no expiresInDays) is accepted or refused.                          *)
(*                                                                         *)
(* lastCall is the response of the call that has just returned, with the   *)
(* call's inputs and the trace of its writes and cache invalidations; the  *)
(* caller takes it (Return) before the next step.  No action reads it.     *)
(* credited counts, for each token, the approvals that have adjusted its   *)
(* owner's balance, and updated counts the calls of                        *)
(* updateUnifiedTokenAction that have written.  No action reads credited;  *)
(* updated is read only by the bound on the size of a behaviour (Load).    *)
(***************************************************************************)
EXTENDS Integers, Sequences, FiniteSets, Bags, TLC

VARIABLES tokens, users, transactions, now, inflight, lastCall, credited, updated

vars == <<tokens, users, transactions, now, inflight, lastCall, credited, updated>>

-----------------------------------------------------------------------------
(* Bounds of the model *)

MaxTokens == 2
MaxPeriods == 1
MaxBalance == 400
MaxInFlight == 2
MaxLoad == 3
SweepBacklog == 101

(* Program constants *)

CommissionRatePercent == 5
ReferralExpiryDays == 30
AnalysisWindowDays == 30
CleanupLimit == 100

-----------------------------------------------------------------------------
(* Domain *)

TokenTypes == {"deposit", "withdrawal", "bonus", "referral_commission", "cashback", "raffle_entry"}

TokenStatuses == {"pending", "approved", "rejected", "expired"}

CreditTypes == {"deposit", "bonus", "referral_commission", "cashback"}

BalanceTypes == CreditTypes \cup {"withdrawal"}

Users == {"u1", "u2"}

NoUser == ""

GhostUser == "u0"

UserIds == Users \cup {GhostUser}

ReferredIds == {"u2", GhostUser}

AdminId == "admin"

RejectReason == "reason"

NoTime == -1

ExistingIds == 1..Len(tokens)

(* The size of a state: its tokens, up to MaxTokens of them, its calls in  *)
(* flight, and the updateUnifiedTokenAction calls that have written.       *)
Load ==
    (IF Len(tokens) < MaxTokens THEN Len(tokens) ELSE MaxTokens)
        + BagCardinality(inflight) + updated

RoomForUpdate == Load < MaxLoad

RoomForToken == Len(tokens) < MaxTokens /\ Load < MaxLoad

RoomForCall == BagCardinality(inflight) < MaxInFlight /\ Load < MaxLoad

(* The ids a caller may name: those of the tokens, and one of no token *)
TokenIds == 1..(Len(tokens) + 1)

CreateInputs ==
    { [userId |-> "u1", type |-> "deposit", amount |-> 200, expiresInDays |-> 30],
      [userId |-> "u1", type |-> "withdrawal", amount |-> 200, expiresInDays |-> 0],
      [userId |-> GhostUser, type |-> "raffle_entry", amount |-> 200, expiresInDays |-> 0] }

DepositAmounts == {3000}

NoCode == ""

ReferralCodes == {NoCode, "R1", "BAD"}

TxIds == {"tx1", "tx0"}

DefaultLimit == 50


-----------------------------------------------------------------------------
(* Results of a call.  The error strings are the source's, in ASCII. *)

ErrCreate == "Token olusturulamadi"
ErrUpdate == "Token guncellenemedi"
ErrGet == "Token alinamadi"
ErrList == "Tokenlar alinamadi"
ErrNotFound == "Token bulunamadi"
ErrProcessed == "Token zaten islenmis"
ErrApprove == "Token onaylanamadi"
ErrReject == "Token reddedilemedi"
ErrCleanup == "Suresi dolmus tokenlar temizlenemedi"
ErrStats == "Istatistikler alinamadi"
ErrTxNotFound == "Transaction bulunamadi"
ErrMigrate == "Migration basarisiz"
ErrBadCode == "Gecersiz referral kodu"
ErrReferral == "Referral islemi basarisiz"
ErrCommissionTokens == "Komisyon tokenlari alinamadi"
ErrApproveCommission == "Komisyon onaylanamadi"
ErrChain == "Referral zinciri alinamadi"
ErrPending == "Bekleyen komisyonlar alinamadi"
ErrAnalysis == "Analiz yapilamadi"

(* What a call returns: an object {success, ...}, with the error string or *)
(* the payload (a number: token id, count, amount; or a list of token      *)
(* ids); a ReferralStats value; or null.                                   *)
Ok(value) == [kind |-> "object", success |-> TRUE, error |-> "", value |-> value, list |-> << >>]

OkList(list) == [kind |-> "object", success |-> TRUE, error |-> "", value |-> 0, list |-> list]

Err(msg) == [kind |-> "object", success |-> FALSE, error |-> msg, value |-> 0, list |-> << >>]

Null == [kind |-> "null", success |-> FALSE, error |-> "", value |-> 0, list |-> << >>]

Stats(total) == [kind |-> "stats", success |-> FALSE, error |-> "", value |-> total, list |-> << >>]

(* The events of a call, in program order *)
Write == "write"

Revalidate(path) == path

NoEvents == << >>

(* The invalidation moved before the write *)
TokenPagesFirst == <<Revalidate("/admin/tokens"), Write, Revalidate("/dashboard")>>

TokenPages == <<Write, Revalidate("/admin/tokens"), Revalidate("/dashboard")>>

(* A filter not given *)
NoFilter == ""

NoArgs ==
    [tokenId |-> 0, userId |-> NoUser, amount |-> 0, code |-> NoCode,
     tokenType |-> NoFilter, status |-> NoFilter, limitCount |-> 0]

OnToken(tokenId) == [NoArgs EXCEPT !.tokenId = tokenId]

OnUser(userId) == [NoArgs EXCEPT !.userId = userId]

Call(op, args, dbFailed, ret, events) ==
    [op |-> op, args |-> args, dbFailed |-> dbFailed, ret |-> ret, events |-> events]

NoCall == Call("", NoArgs, FALSE, Null, NoEvents)


-----------------------------------------------------------------------------
(* Initial state: two users with their referral codes, one legacy          *)
(* transaction, no token.                                                  *)

NewUser(code) ==
    [balance |-> 0, depositTotal |-> 0, bonusTotal |-> 0, referral_commissionTotal |-> 0,
     cashbackTotal |-> 0, withdrawalTotal |-> 0, referralCode |-> code, referredBy |-> NoUser,
     referralProcessedAt |-> NoTime,
     referralStats |-> [totalReferrals |-> 0, totalCommissions |-> 0,
                        pendingCommissions |-> 0, approvedCommissions |-> 0]]

LegacyTransaction ==
    [userId |-> "u1", type |-> "deposit", amount |-> 200, status |-> "approved",
     createdAt |-> 0, approvedBy |-> AdminId, migratedToToken |-> 0]

Init ==
    /\ tokens = << >>
    /\ users = [u \in Users |-> NewUser(IF u = "u1" THEN "R1" ELSE "R2")]
    /\ transactions = [t \in {"tx1"} |-> LegacyTransaction]
    /\ now = 0
    /\ inflight = EmptyBag
    /\ lastCall = NoCall
    /\ credited = << >>
    /\ updated = 0

-----------------------------------------------------------------------------
(* The clock, and the caller taking a response *)

Ready == lastCall = NoCall

Tick ==
    /\ Ready
    /\ now + ReferralExpiryDays <= MaxPeriods * ReferralExpiryDays
    /\ now' = now + ReferralExpiryDays
    /\ UNCHANGED <<tokens, users, transactions, inflight, lastCall, credited, updated>>

Return ==
    /\ ~Ready
    /\ lastCall' = NoCall
    /\ UNCHANGED <<tokens, users, transactions, now, updated, inflight, credited>>

-----------------------------------------------------------------------------
(* createUnifiedTokenAction *)

NewToken(userId, type, amount, status, createdAt, expiresAt) ==
    [userId |-> userId, type |-> type, amount |-> amount, status |-> status,
     createdAt |-> createdAt, expiresAt |-> expiresAt, approvedBy |-> "",
     rejectedBy |-> "", rejectionReason |-> "", expiredAt |-> NoTime,
     originalTransactionId |-> "", originalDepositAmount |-> 0]

ExpiresAt(expiresInDays) ==
    IF expiresInDays # 0 THEN now + expiresInDays ELSE NoTime

AddDoc(token) == Append(tokens, token)

(* A call in progress enters and leaves the calls in flight *)
Begin(c) ==
    /\ RoomForCall
    /\ inflight' = inflight (+) SetToBag({c})

End(c) ==
    /\ BagIn(c, inflight)
    /\ inflight' = inflight (-) SetToBag({c})

Calls == BagToSet(inflight)

(* A creation waiting at addDoc, with the tokenData it built when called *)
Creating(userId, token) == [op |-> "createUnifiedTokenAction", userId |-> userId, token |-> token]

(* The call: tokenData is built, with the clock's time, before addDoc is   *)
(* awaited.                                                                *)
createUnifiedTokenAction ==
    \E req \in CreateInputs :
        /\ Ready
        /\ RoomForToken
        /\ Begin(Creating(req.userId,
                          NewToken(req.userId, req.type, req.amount, "pending", now,
                                   ExpiresAt(req.expiresInDays))))
        /\ UNCHANGED <<tokens, users, transactions, now, updated, lastCall, credited>>

(* addDoc and what follows it *)
createUnifiedTokenActionAddDoc(c) ==
    /\ Ready
    /\ c.op = "createUnifiedTokenAction"
    /\ End(c)
    /\ UNCHANGED <<users, transactions, now, updated>>
    /\ \E fail \in BOOLEAN :
        IF fail
        THEN /\ lastCall' = Call("createUnifiedTokenAction", OnUser(c.userId), TRUE,
                                 Err(ErrCreate), NoEvents)
             /\ UNCHANGED <<tokens, credited>>
        ELSE /\ Len(tokens) < MaxTokens
             /\ tokens' = AddDoc(c.token)
             /\ credited' = Append(credited, 0)
             /\ lastCall' = Call("createUnifiedTokenAction", OnUser(c.userId), FALSE,
                                 Ok(Len(tokens) + 1), TokenPages)

-----------------------------------------------------------------------------
(* updateUnifiedTokenAction: updateDoc merges the given fields into the    *)
(* document and fails when the document does not exist.                    *)

(* The updates drawn: each status, an amount, an owner, a type *)
UpdateChoices ==
    { [status |-> st] : st \in TokenStatuses }
        \cup { [amount |-> 500], [userId |-> "u2"], [type |-> "withdrawal"] }

UpdateDoc(tok, updates) ==
    [f \in DOMAIN tok |-> IF f \in DOMAIN updates THEN updates[f] ELSE tok[f]]

updateUnifiedTokenAction ==
    \E tokenId \in TokenIds, upd \in UpdateChoices, fail \in BOOLEAN :
        /\ Ready
        /\ RoomForCall
        /\ IF fail \/ tokenId \notin ExistingIds
           THEN /\ lastCall' = Call("updateUnifiedTokenAction", OnToken(tokenId), TRUE,
                                    Err(ErrUpdate), NoEvents)
                /\ UNCHANGED <<tokens, updated>>
           ELSE /\ RoomForUpdate
                /\ tokens' = [tokens EXCEPT ![tokenId] = UpdateDoc(@, upd)]
                /\ updated' = updated + 1
                /\ lastCall' = Call("updateUnifiedTokenAction", OnToken(tokenId), FALSE, Ok(0),
                                    TokenPages)
        /\ UNCHANGED <<users, transactions, now, inflight, credited>>

-----------------------------------------------------------------------------
(* rejectTokenAction *)

(* The status alone *)
RejectUpdatesBare(adminUserId, reason) == [status |-> "rejected"]

RejectUpdates(adminUserId, reason) ==
    [status |-> "rejected", rejectedBy |-> adminUserId, rejectionReason |-> reason]

rejectTokenAction ==
    \E tokenId \in TokenIds, fail \in BOOLEAN :
        /\ Ready
        /\ RoomForCall
        /\ IF fail \/ tokenId \notin ExistingIds
           THEN /\ lastCall' = Call("rejectTokenAction", OnToken(tokenId), TRUE, Err(ErrReject), NoEvents)
                /\ UNCHANGED tokens
           ELSE /\ tokens' = [tokens EXCEPT ![tokenId] =
                                UpdateDoc(@, RejectUpdates(AdminId, RejectReason))]
                /\ lastCall' = Call("rejectTokenAction", OnToken(tokenId), FALSE, Ok(0), TokenPages)
        /\ UNCHANGED <<users, transactions, now, updated, inflight, credited>>

-----------------------------------------------------------------------------
(* In-flight calls: the calls that have read and not yet written, each    *)
(* with what it read.                                                      *)

Approving(op, tokenId, tok) ==
    [op |-> op, tokenId |-> tokenId, userId |-> tok.userId, type |-> tok.type,
     amount |-> tok.amount, snapshot |-> {}, at |-> NoTime]

(* A sweep in progress: at "getDocs" it has read the clock (at), at        *)
(* "commit" it has the documents its query returned (snapshot).            *)
Sweeping(snapshot, at, stage) ==
    [op |-> "cleanupExpiredTokensAction", tokenId |-> 0, userId |-> NoUser, type |-> "",
     amount |-> 0, snapshot |-> snapshot, at |-> at, stage |-> stage]

(* The same without the status check *)
ApproveReadUnchecked(op, errFail) ==
    \E tokenId \in TokenIds, fail \in BOOLEAN :
        /\ Ready
        /\ UNCHANGED <<tokens, users, transactions, now, updated, credited>>
        /\ IF fail
           THEN /\ lastCall' = Call(op, OnToken(tokenId), TRUE, Err(errFail), NoEvents)
                /\ UNCHANGED inflight
           ELSE IF tokenId \notin ExistingIds
           THEN /\ lastCall' = Call(op, OnToken(tokenId), FALSE, Err(ErrNotFound), NoEvents)
                /\ UNCHANGED inflight
           ELSE /\ Begin(Approving(op, tokenId, tokens[tokenId]))
                /\ UNCHANGED lastCall

(* The first half of approveTokenAction and of                             *)
(* approveReferralCommissionAction: getDoc and the two early returns.      *)
ApproveRead(op, errFail) ==
    \E tokenId \in TokenIds, fail \in BOOLEAN :
        /\ Ready
        /\ UNCHANGED <<tokens, users, transactions, now, updated, credited>>
        /\ IF fail
           THEN /\ lastCall' = Call(op, OnToken(tokenId), TRUE, Err(errFail), NoEvents)
                /\ UNCHANGED inflight
           ELSE IF tokenId \notin ExistingIds
           THEN /\ lastCall' = Call(op, OnToken(tokenId), FALSE, Err(ErrNotFound), NoEvents)
                /\ UNCHANGED inflight
           ELSE IF tokens[tokenId].status # "pending"
           THEN /\ lastCall' = Call(op, OnToken(tokenId), FALSE, Err(ErrProcessed), NoEvents)
                /\ UNCHANGED inflight
           ELSE /\ Begin(Approving(op, tokenId, tokens[tokenId]))
                /\ UNCHANGED lastCall

-----------------------------------------------------------------------------
(* approveTokenAction *)

(* unifiedTokenActions.ts calls increment() and does not import it: the    *)
(* call is a ReferenceError, raised inside the transaction's callback.     *)
UnifiedTokenActionsImportsIncrement == FALSE

TotalField(type) ==
    CASE type = "deposit" -> "depositTotal"
      [] type = "bonus" -> "bonusTotal"
      [] type = "referral_commission" -> "referral_commissionTotal"
      [] type = "cashback" -> "cashbackTotal"
      [] type = "withdrawal" -> "withdrawalTotal"

BalanceDelta(type, amount) ==
    IF type \in CreditTypes THEN amount
    ELSE IF type = "withdrawal" THEN 0 - amount
    ELSE 0

(* The user document after the switch of approveTokenAction *)
ApproveTokenUser(user, type, amount) ==
    IF type \in BalanceTypes
    THEN [user EXCEPT !.balance = @ + BalanceDelta(type, amount),
                      ![TotalField(type)] = @ + amount]
    ELSE user

(* The transaction's callback throws, or its commit is refused: an update  *)
(* of a document that does not exist fails the whole transaction.          *)
ApproveTokenThrows(userId, type) ==
    /\ type \in BalanceTypes
    /\ \/ ~UnifiedTokenActionsImportsIncrement
       \/ userId \notin DOMAIN users

ApproveUpdates(adminUserId) == [status |-> "approved", approvedBy |-> adminUserId]

approveTokenAction == ApproveRead("approveTokenAction", ErrApprove)

approveTokenActionCommit(c) ==
    /\ Ready
    /\ c.op = "approveTokenAction"
    /\ End(c)
    /\ UNCHANGED <<transactions, now, updated>>
    /\ \E fail \in BOOLEAN :
        IF fail \/ ApproveTokenThrows(c.userId, c.type)
        THEN /\ lastCall' = Call("approveTokenAction", OnToken(c.tokenId),
                                 fail \/ (UnifiedTokenActionsImportsIncrement /\ c.type \in BalanceTypes
                                           /\ c.userId \notin DOMAIN users),
                                 Err(ErrApprove), NoEvents)
             /\ UNCHANGED <<tokens, users, credited>>
        ELSE /\ c.type \in BalanceTypes => users[c.userId].balance + c.amount <= MaxBalance
             /\ tokens' = [tokens EXCEPT ![c.tokenId] = UpdateDoc(@, ApproveUpdates(AdminId))]
             /\ users' = IF c.type \in BalanceTypes
                         THEN [users EXCEPT ![c.userId] = ApproveTokenUser(@, c.type, c.amount)]
                         ELSE users
             /\ credited' = IF c.type \in BalanceTypes
                            THEN [credited EXCEPT ![c.tokenId] = @ + 1]
                            ELSE credited
             /\ lastCall' = Call("approveTokenAction", OnToken(c.tokenId), FALSE, Ok(0), TokenPages)

-----------------------------------------------------------------------------
(* approveReferralCommissionAction *)

ReferralPages == <<Write, Revalidate("/admin/referrals"), Revalidate("/dashboard/referrals")>>

ApproveReferralCommissionUser(user, amount) ==
    [user EXCEPT !.balance = @ + amount,
                 !.referralStats.approvedCommissions = @ + amount,
                 !.referralStats.pendingCommissions = @ - amount]

approveReferralCommissionAction == ApproveRead("approveReferralCommissionAction", ErrApproveCommission)

approveReferralCommissionActionCommit(c) ==
    /\ Ready
    /\ c.op = "approveReferralCommissionAction"
    /\ End(c)
    /\ UNCHANGED <<transactions, now, updated>>
    /\ \E fail \in BOOLEAN :
        IF fail \/ c.userId \notin DOMAIN users
        THEN /\ lastCall' = Call("approveReferralCommissionAction", OnToken(c.tokenId), TRUE,
                                 Err(ErrApproveCommission), NoEvents)
             /\ UNCHANGED <<tokens, users, credited>>
        ELSE /\ users[c.userId].balance + c.amount <= MaxBalance
             /\ tokens' = [tokens EXCEPT ![c.tokenId] = UpdateDoc(@, ApproveUpdates(AdminId))]
             /\ users' = [users EXCEPT ![c.userId] = ApproveReferralCommissionUser(@, c.amount)]
             /\ credited' = [credited EXCEPT ![c.tokenId] = @ + 1]
             /\ lastCall' = Call("approveReferralCommissionAction", OnToken(c.tokenId), FALSE,
                                 Ok(0), ReferralPages)

-----------------------------------------------------------------------------
(* cleanupExpiredTokensAction *)

Min(a, b) == IF a <= b THEN a ELSE b

ExpiredMatches(at) ==
    {i \in ExistingIds : /\ tokens[i].expiresAt # NoTime
                         /\ tokens[i].expiresAt <= at
                         /\ tokens[i].status = "pending"}

(* The d matches that come last in the order of expiresAt, in every way    *)
(* the ties can fall.                                                      *)
RECURSIVE Latest(_, _)
Latest(M, d) ==
    IF d = 0 THEN {{}}
    ELSE UNION { { D \cup {j} : D \in Latest(M \ {j}, d - 1) } :
                 j \in {j \in M : \A i \in M : tokens[i].expiresAt <= tokens[j].expiresAt} }

(* The query's possible results: limit(n) keeps the first n matches in the *)
(* order of the inequality field, expiresAt.                               *)
ExpiredQuery(at, n) ==
    LET M == ExpiredMatches(at)
    IN  IF Cardinality(M) <= n THEN {M}
        ELSE {M \ D : D \in Latest(M, Cardinality(M) - n)}

ExpireUpdates(at) == [status |-> "expired", expiredAt |-> at]

(* A batch that is never committed *)
BatchDropped(ids, updates) == tokens

(* batch.set for batch.update: the documents are replaced, not merged *)
BatchSet(ids, updates) ==
    [i \in ExistingIds |->
        IF i \in ids
        THEN UpdateDoc(NewToken(NoUser, "", 0, "", NoTime, NoTime), updates)
        ELSE tokens[i]]

BatchUpdate(ids, updates) ==
    [i \in ExistingIds |-> IF i \in ids THEN UpdateDoc(tokens[i], updates) ELSE tokens[i]]

(* The call: now = Timestamp.now() is read and the query is built with it  *)
(* before getDocs is awaited.                                              *)
cleanupExpiredTokensAction ==
    /\ Ready
    /\ Begin(Sweeping({}, now, "getDocs"))
    /\ UNCHANGED <<tokens, users, transactions, now, updated, lastCall, credited>>

(* getDocs(expiredQuery), and the return when it is empty *)
cleanupExpiredTokensActionGetDocs(c) ==
    /\ Ready
    /\ c.op = "cleanupExpiredTokensAction"
    /\ c.stage = "getDocs"
    /\ BagIn(c, inflight)
    /\ UNCHANGED <<tokens, users, transactions, now, updated, credited>>
    /\ \E fail \in BOOLEAN :
        IF fail
        THEN /\ inflight' = inflight (-) SetToBag({c})
             /\ lastCall' = Call("cleanupExpiredTokensAction", NoArgs, TRUE, Err(ErrCleanup), NoEvents)
        ELSE \E S \in ExpiredQuery(c.at, CleanupLimit) :
                 IF S = {}
                 THEN /\ inflight' = inflight (-) SetToBag({c})
                      /\ lastCall' = Call("cleanupExpiredTokensAction", NoArgs, FALSE, Ok(0), NoEvents)
                 ELSE /\ inflight' = (inflight (-) SetToBag({c}))
                                        (+) SetToBag({Sweeping(S, c.at, "commit")})
                      /\ UNCHANGED lastCall

(* batch.commit() and what follows it *)
cleanupExpiredTokensActionCommit(c) ==
    /\ Ready
    /\ c.op = "cleanupExpiredTokensAction"
    /\ c.stage = "commit"
    /\ End(c)
    /\ UNCHANGED <<users, transactions, now, updated, credited>>
    /\ \E fail \in BOOLEAN :
        IF fail
        THEN /\ lastCall' = Call("cleanupExpiredTokensAction", NoArgs, TRUE, Err(ErrCleanup), NoEvents)
             /\ UNCHANGED tokens
        ELSE /\ tokens' = BatchUpdate(c.snapshot, ExpireUpdates(c.at))
             /\ lastCall' = Call("cleanupExpiredTokensAction", NoArgs, FALSE, Ok(Cardinality(c.snapshot)),
                                 <<Write, Revalidate("/admin/tokens")>>)

-----------------------------------------------------------------------------
(* migrateTransactionToTokenAction: getDoc, addDoc, updateDoc, each        *)
(* awaited: three steps, with the tokenData built from the transaction and *)
(* then the new token's id held in between.                                *)

MigratedToken(transactionId, tx) ==
    [NewToken(tx.userId, tx.type, tx.amount, tx.status,
              IF tx.createdAt # NoTime THEN tx.createdAt ELSE now, NoTime)
        EXCEPT !.approvedBy = tx.approvedBy, !.originalTransactionId = transactionId]

MigratePages == <<Write, Write, Revalidate("/admin/tokens"), Revalidate("/admin/transactions")>>

(* A migration between its awaits: at "addDoc" it has read the             *)
(* transaction and built tokenData (token), at "updateDoc" it has added    *)
(* the token tokenId.                                                      *)
Migrating(transactionId, token, stage, tokenId) ==
    [op |-> "migrateTransactionToTokenAction", transactionId |-> transactionId, token |-> token,
     stage |-> stage, tokenId |-> tokenId]

migrateTransactionToTokenAction ==
    \E transactionId \in TxIds, fail \in BOOLEAN :
        /\ Ready
        /\ UNCHANGED <<tokens, users, transactions, now, updated, credited>>
        /\ IF fail
           THEN /\ lastCall' = Call("migrateTransactionToTokenAction", NoArgs, TRUE,
                                    Err(ErrMigrate), NoEvents)
                /\ UNCHANGED inflight
           ELSE IF transactionId \notin DOMAIN transactions
           THEN /\ lastCall' = Call("migrateTransactionToTokenAction", NoArgs, FALSE,
                                    Err(ErrTxNotFound), NoEvents)
                /\ UNCHANGED inflight
           ELSE /\ Begin(Migrating(transactionId,
                                     MigratedToken(transactionId, transactions[transactionId]),
                                     "addDoc", 0))
                /\ UNCHANGED lastCall

migrateTransactionToTokenActionAddDoc(c) ==
    /\ Ready
    /\ c.op = "migrateTransactionToTokenAction"
    /\ c.stage = "addDoc"
    /\ BagIn(c, inflight)
    /\ UNCHANGED <<users, transactions, now, updated>>
    /\ \E fail \in BOOLEAN :
        IF fail
        THEN /\ inflight' = inflight (-) SetToBag({c})
             /\ lastCall' = Call("migrateTransactionToTokenAction", NoArgs, TRUE,
                                 Err(ErrMigrate), NoEvents)
             /\ UNCHANGED <<tokens, credited>>
        ELSE /\ Len(tokens) < MaxTokens
             /\ tokens' = AddDoc(c.token)
             /\ credited' = Append(credited, 0)
             /\ inflight' = (inflight (-) SetToBag({c}))
                               (+) SetToBag({Migrating(c.transactionId, c.token, "updateDoc",
                                                       Len(tokens) + 1)})
             /\ UNCHANGED lastCall

migrateTransactionToTokenActionUpdateDoc(c) ==
    /\ Ready
    /\ c.op = "migrateTransactionToTokenAction"
    /\ c.stage = "updateDoc"
    /\ End(c)
    /\ UNCHANGED <<tokens, users, now, updated, credited>>
    /\ \E fail \in BOOLEAN :
        IF fail \/ c.transactionId \notin DOMAIN transactions
        THEN /\ lastCall' = Call("migrateTransactionToTokenAction", NoArgs, TRUE,
                                 Err(ErrMigrate), <<Write>>)
             /\ UNCHANGED transactions
        ELSE /\ transactions' = [transactions EXCEPT ![c.transactionId].migratedToToken = c.tokenId]
             /\ lastCall' = Call("migrateTransactionToTokenAction", NoArgs, FALSE,
                                 Ok(c.tokenId), MigratePages)

-----------------------------------------------------------------------------
(* processDepositReferralAction *)

(* A changed rate: 0.5 for 0.05 *)
CommissionAmountHalf(depositAmount) == (depositAmount * 50) \div 100

(* depositAmount * commissionRate, commissionRate = 0.05 *)
CommissionAmount(depositAmount) == (depositAmount * CommissionRatePercent) \div 100

(* A query without its where clause *)
ReferrersAny(code) == DOMAIN users

Referrers(code) == {u \in DOMAIN users : users[u].referralCode = code}

CommissionToken(referrerId, depositAmount, at) ==
    [NewToken(referrerId, "referral_commission", CommissionAmount(depositAmount), "pending",
              at, at + ReferralExpiryDays)
        EXCEPT !.originalDepositAmount = depositAmount]

ReferrerUpdate(user, commissionAmount) ==
    [user EXCEPT !.referralStats.totalCommissions = @ + commissionAmount,
                 !.referralStats.pendingCommissions = @ + commissionAmount,
                 !.referralStats.totalReferrals = @ + 1]

(* The referred user left as it was *)
ReferredUpdateSkipped(user, referrerId, at) == user

ReferredUpdate(user, referrerId, at) ==
    [user EXCEPT !.referredBy = referrerId, !.referralProcessedAt = at]

(* The users after the transaction's two updates, in their order *)
ReferralUsers(referrerId, userId, commissionAmount, at) ==
    LET afterReferrer == [users EXCEPT ![referrerId] = ReferrerUpdate(@, commissionAmount)]
    IN  [afterReferrer EXCEPT ![userId] = ReferredUpdate(@, referrerId, at)]

(* A referral between its two awaits: it has found the referrer and has   *)
(* computed the commission, and the transaction's callback has run and has *)
(* read the clock (at) for the writes it queued; the commit is awaited.    *)
Referring(userId, depositAmount, referralCode, referrerId, at) ==
    [op |-> "processDepositReferralAction", userId |-> userId, depositAmount |-> depositAmount,
     referralCode |-> referralCode, referrerId |-> referrerId,
     commissionAmount |-> CommissionAmount(depositAmount), at |-> at]

ReferralArgs(userId, depositAmount, referralCode) ==
    [NoArgs EXCEPT !.userId = userId, !.amount = depositAmount, !.code = referralCode]

(* Up to the commit of runTransaction: the early return, the referrer's    *)
(* query, and the callback, which queues the writes.                       *)
processDepositReferralAction ==
    \E userId \in ReferredIds, depositAmount \in DepositAmounts, referralCode \in ReferralCodes,
       fail \in BOOLEAN :
        LET args == ReferralArgs(userId, depositAmount, referralCode)
            op == "processDepositReferralAction"
        IN
        /\ Ready
        /\ UNCHANGED <<tokens, users, transactions, now, updated, credited>>
        /\ IF referralCode = NoCode
           THEN /\ ~fail
                /\ lastCall' = Call(op, args, FALSE, Ok(0), NoEvents)
                /\ UNCHANGED inflight
           ELSE IF fail
           THEN /\ lastCall' = Call(op, args, TRUE, Err(ErrReferral), NoEvents)
                /\ UNCHANGED inflight
           ELSE IF Referrers(referralCode) = {}
           THEN /\ lastCall' = Call(op, args, FALSE, Err(ErrBadCode), NoEvents)
                /\ UNCHANGED inflight
           ELSE \E referrerId \in Referrers(referralCode) :
                    /\ Begin(Referring(userId, depositAmount, referralCode, referrerId, now))
                    /\ UNCHANGED lastCall

(* The commit of runTransaction and what follows it *)
processDepositReferralActionCommit(c) ==
    LET args == ReferralArgs(c.userId, c.depositAmount, c.referralCode)
        op == "processDepositReferralAction"
    IN
    /\ Ready
    /\ c.op = op
    /\ End(c)
    /\ UNCHANGED <<transactions, now, updated>>
    /\ \E fail \in BOOLEAN :
        IF fail \/ c.userId \notin DOMAIN users \/ c.referrerId \notin DOMAIN users
        THEN /\ lastCall' = Call(op, args, TRUE, Err(ErrReferral), NoEvents)
             /\ UNCHANGED <<tokens, users, credited>>
        ELSE /\ Len(tokens) < MaxTokens
             /\ tokens' = AddDoc(CommissionToken(c.referrerId, c.depositAmount, c.at))
             /\ credited' = Append(credited, 0)
             /\ users' = ReferralUsers(c.referrerId, c.userId, c.commissionAmount, c.at)
             /\ lastCall' = Call(op, args, FALSE, Ok(c.commissionAmount),
                                 <<Write, Revalidate("/dashboard/referrals")>>)

-----------------------------------------------------------------------------
(* Queries: the read-only actions change nothing but the response.  A     *)
(* query is a call in flight for the length of its one step, and is taken  *)
(* when there is room for a call.                                          *)

ReadOnly ==
    /\ RoomForCall
    /\ UNCHANGED <<tokens, users, transactions, now, updated, inflight, credited>>

(* orderBy('createdAt', 'desc') with limit(n): the possible result lists.  *)
(* Tokens created at the same time come in either order.                   *)
NewestFirst(matches, n) ==
    LET k == Min(n, Cardinality(matches))
    IN  {s \in [1..k -> matches] :
            /\ \A i, j \in 1..k : i < j => /\ s[i] # s[j]
                                           /\ tokens[s[i]].createdAt >= tokens[s[j]].createdAt
            /\ \A i \in 1..k, m \in matches :
                  (\A j \in 1..k : s[j] # m) => tokens[s[i]].createdAt >= tokens[m].createdAt}

(* The query getUserUnifiedTokensAction ends up with: the status filter,   *)
(* when given, replaces the type filter.                                   *)
UserTokensMatches(userId, tokenType, status) ==
    {i \in ExistingIds :
        /\ tokens[i].userId = userId
        /\ IF status # NoFilter THEN tokens[i].status = status
           ELSE IF tokenType # NoFilter THEN tokens[i].type = tokenType
           ELSE TRUE}

getUnifiedTokenAction ==
    \E tokenId \in {1, MaxTokens + 1}, fail \in BOOLEAN :
        /\ Ready
        /\ ReadOnly
        /\ lastCall' = Call("getUnifiedTokenAction", OnToken(tokenId), fail,
                            IF fail THEN Err(ErrGet)
                            ELSE IF tokenId \notin ExistingIds THEN Err(ErrNotFound)
                            ELSE Ok(tokenId),
                            NoEvents)

(* The filters and limits drawn: none, each one alone, both *)
ListInputs ==
    { [tokenType |-> NoFilter, status |-> NoFilter, limitCount |-> 1],
      [tokenType |-> "deposit", status |-> NoFilter, limitCount |-> DefaultLimit],
      [tokenType |-> NoFilter, status |-> "pending", limitCount |-> DefaultLimit],
      [tokenType |-> "deposit", status |-> "pending", limitCount |-> DefaultLimit] }

getUserUnifiedTokensAction ==
    \E userId \in {"u1"}, req \in ListInputs, fail \in BOOLEAN :
        LET args == [OnUser(userId) EXCEPT !.tokenType = req.tokenType, !.status = req.status,
                                          !.limitCount = req.limitCount]
        IN
        /\ Ready
        /\ ReadOnly
        /\ IF fail
           THEN lastCall' = Call("getUserUnifiedTokensAction", args, TRUE, Err(ErrList), NoEvents)
           ELSE \E list \in NewestFirst(UserTokensMatches(userId, req.tokenType, req.status),
                                        req.limitCount) :
                    lastCall' = Call("getUserUnifiedTokensAction", args, FALSE, OkList(list),
                                     NoEvents)

(* Of the statistics, the response keeps the total *)
getTokenStatisticsAction ==
    \E fail \in BOOLEAN :
        /\ Ready
        /\ ReadOnly
        /\ lastCall' = Call("getTokenStatisticsAction", NoArgs, fail,
                            IF fail THEN Err(ErrStats) ELSE Ok(Len(tokens)), NoEvents)

(* getUserReferralStatsAction returns the stats, or null *)
getUserReferralStatsAction ==
    \E userId \in {"u1", GhostUser}, fail \in BOOLEAN :
        /\ Ready
        /\ ReadOnly
        /\ lastCall' = Call("getUserReferralStatsAction", OnUser(userId), fail,
                            IF fail \/ userId \notin DOMAIN users THEN Null
                            ELSE Stats(users[userId].referralStats.totalReferrals),
                            NoEvents)

CommissionTokens(userId) ==
    {i \in ExistingIds : tokens[i].userId = userId /\ tokens[i].type = "referral_commission"}

getUserReferralCommissionTokensAction ==
    \E userId \in {"u1"}, fail \in BOOLEAN :
        /\ Ready
        /\ ReadOnly
        /\ IF fail
           THEN lastCall' = Call("getUserReferralCommissionTokensAction", OnUser(userId), TRUE,
                                 Err(ErrCommissionTokens), NoEvents)
           ELSE \E list \in NewestFirst(CommissionTokens(userId), DefaultLimit) :
                    lastCall' = Call("getUserReferralCommissionTokensAction", OnUser(userId), FALSE,
                                     OkList(list), NoEvents)

(* A catch block that rethrows *)
getUserReferralChainActionRethrows ==
    \E userId \in {"u1"}, fail \in BOOLEAN :
        /\ Ready
        /\ ReadOnly
        /\ lastCall' = Call("getUserReferralChainAction", OnUser(userId), fail,
                            IF fail THEN [Err(ErrChain) EXCEPT !.kind = "throw"]
                            ELSE Ok(Cardinality({u \in DOMAIN users : users[u].referredBy = userId})),
                            NoEvents)

(* Of the referred users, the response keeps their number *)
getUserReferralChainAction ==
    \E userId \in {"u1"}, fail \in BOOLEAN :
        /\ Ready
        /\ ReadOnly
        /\ lastCall' = Call("getUserReferralChainAction", OnUser(userId), fail,
                            IF fail THEN Err(ErrChain)
                            ELSE Ok(Cardinality({u \in DOMAIN users : users[u].referredBy = userId})),
                            NoEvents)

PendingCommissions ==
    {i \in ExistingIds : tokens[i].type = "referral_commission" /\ tokens[i].status = "pending"}

(* The loop variable of getPendingReferralCommissionsAction is named doc   *)
(* and hides the imported doc(): the loop body's doc(db, ...) is a         *)
(* TypeError as soon as the query returns a document.                      *)
getPendingReferralCommissionsAction ==
    \E fail \in BOOLEAN :
        /\ Ready
        /\ ReadOnly
        /\ lastCall' = Call("getPendingReferralCommissionsAction", NoArgs, fail,
                            IF fail \/ PendingCommissions # {} THEN Err(ErrPending)
                            ELSE OkList(<< >>),
                            NoEvents)

(* An analysis in progress: at "users" it has computed thirtyDaysAgo from  *)
(* the clock, at "tokens" it has the number of users its first read found. *)
Analyzing(userId, thirtyDaysAgo, stage, recentReferrals) ==
    [op |-> "analyzeReferralPerformanceAction", userId |-> userId,
     thirtyDaysAgo |-> thirtyDaysAgo, stage |-> stage, recentReferrals |-> recentReferrals]

(* The users referred by userId since thirtyDaysAgo; a user with no        *)
(* referralProcessedAt does not match the query.                           *)
RecentReferrals(userId, thirtyDaysAgo) ==
    {u \in DOMAIN users : /\ users[u].referredBy = userId
                          /\ users[u].referralProcessedAt # NoTime
                          /\ users[u].referralProcessedAt >= thirtyDaysAgo}

RECURSIVE TotalAmount(_)
TotalAmount(ids) ==
    IF ids = {} THEN 0
    ELSE LET i == CHOOSE k \in ids : TRUE
         IN  tokens[i].amount + TotalAmount(ids \ {i})

(* The analysis: recentReferrals, totalCommissionTokens,                   *)
(* totalCommissionAmount, approvedCommissions.  approvalRate and           *)
(* averageCommissionAmount are quotients of these and are left out.        *)
Analysis(recentReferrals, commissions) ==
    <<recentReferrals, Cardinality(commissions), TotalAmount(commissions),
      Cardinality({i \in commissions : tokens[i].status = "approved"})>>

(* The call: thirtyDaysAgo is computed from Date.now() before the first    *)
(* getDocs is awaited.                                                     *)
analyzeReferralPerformanceAction ==
    \E userId \in {"u1"} :
        /\ Ready
        /\ Begin(Analyzing(userId, now - AnalysisWindowDays, "users", 0))
        /\ UNCHANGED <<tokens, users, transactions, now, updated, lastCall, credited>>

(* The first read: getDocs(recentReferralsQuery) *)
analyzeReferralPerformanceActionUsers(c) ==
    /\ Ready
    /\ c.op = "analyzeReferralPerformanceAction"
    /\ c.stage = "users"
    /\ BagIn(c, inflight)
    /\ UNCHANGED <<tokens, users, transactions, now, updated, credited>>
    /\ \E fail \in BOOLEAN :
        IF fail
        THEN /\ inflight' = inflight (-) SetToBag({c})
             /\ lastCall' = Call("analyzeReferralPerformanceAction", OnUser(c.userId), TRUE,
                                 Err(ErrAnalysis), NoEvents)
        ELSE /\ inflight' = (inflight (-) SetToBag({c}))
                               (+) SetToBag({Analyzing(c.userId, c.thirtyDaysAgo, "tokens",
                                      Cardinality(RecentReferrals(c.userId, c.thirtyDaysAgo)))})
             /\ UNCHANGED lastCall

(* The second read: getDocs(commissionsQuery) *)
analyzeReferralPerformanceActionTokens(c) ==
    /\ Ready
    /\ c.op = "analyzeReferralPerformanceAction"
    /\ c.stage = "tokens"
    /\ End(c)
    /\ UNCHANGED <<tokens, users, transactions, now, updated, credited>>
    /\ \E fail \in BOOLEAN :
        lastCall' = Call("analyzeReferralPerformanceAction", OnUser(c.userId), fail,
                         IF fail THEN Err(ErrAnalysis)
                         ELSE OkList(Analysis(c.recentReferrals, CommissionTokens(c.userId))),
                         NoEvents)

-----------------------------------------------------------------------------
(* The specification *)

createUnifiedTokenActionAdd == \E c \in Calls : createUnifiedTokenActionAddDoc(c)

approveTokenActionTransaction == \E c \in Calls : approveTokenActionCommit(c)

approveReferralCommissionActionTransaction == \E c \in Calls : approveReferralCommissionActionCommit(c)

cleanupExpiredTokensActionQuery == \E c \in Calls : cleanupExpiredTokensActionGetDocs(c)

cleanupExpiredTokensActionBatch == \E c \in Calls : cleanupExpiredTokensActionCommit(c)

migrateTransactionToTokenActionAdd == \E c \in Calls : migrateTransactionToTokenActionAddDoc(c)

migrateTransactionToTokenActionMark == \E c \in Calls : migrateTransactionToTokenActionUpdateDoc(c)

processDepositReferralActionTransaction == \E c \in Calls : processDepositReferralActionCommit(c)

analyzeReferralPerformanceActionFirstRead == \E c \in Calls : analyzeReferralPerformanceActionUsers(c)

analyzeReferralPerformanceActionSecondRead == \E c \in Calls : analyzeReferralPerformanceActionTokens(c)

Next ==
    \/ Tick
    \/ Return
    \/ createUnifiedTokenAction
    \/ createUnifiedTokenActionAdd
    \/ updateUnifiedTokenAction
    \/ rejectTokenAction
    \/ approveTokenAction
    \/ approveTokenActionTransaction
    \/ approveReferralCommissionAction
    \/ approveReferralCommissionActionTransaction
    \/ cleanupExpiredTokensAction
    \/ cleanupExpiredTokensActionQuery
    \/ cleanupExpiredTokensActionBatch
    \/ migrateTransactionToTokenAction
    \/ migrateTransactionToTokenActionAdd
    \/ migrateTransactionToTokenActionMark
    \/ processDepositReferralAction
    \/ processDepositReferralActionTransaction
    \/ getUnifiedTokenAction
    \/ getUserUnifiedTokensAction
    \/ getTokenStatisticsAction
    \/ getUserReferralStatsAction
    \/ getUserReferralCommissionTokensAction
    \/ getUserReferralChainAction
    \/ getPendingReferralCommissionsAction
    \/ analyzeReferralPerformanceAction
    \/ analyzeReferralPerformanceActionFirstRead
    \/ analyzeReferralPerformanceActionSecondRead

Spec == Init /\ [][Next]_vars

-----------------------------------------------------------------------------
(* The expiry sweep on a backlog: more tokens than one sweep's limit, all  *)
(* created at time 0 by createUnifiedTokenAction('u1', 'deposit', 2.00,    *)
(* {}, 30), and the sweep invoked again and again: weak fairness on the    *)
(* invocation, on the query and the batch of a sweep in progress, and on   *)
(* the return of a call.  Nothing is assumed of the database: the query or the *)
(* commit of a sweep may fail, every time.  The code has no retry.         *)

BacklogToken == NewToken("u1", "deposit", 200, "pending", 0, 30)

SweepInit ==
    /\ tokens = [i \in 1..SweepBacklog |-> BacklogToken]
    /\ users = [u \in Users |-> NewUser(IF u = "u1" THEN "R1" ELSE "R2")]
    /\ transactions = [t \in {"tx1"} |-> LegacyTransaction]
    /\ now = 0
    /\ inflight = EmptyBag
    /\ lastCall = NoCall
    /\ credited = [i \in 1..SweepBacklog |-> 0]
    /\ updated = 0

SweepNext ==
    \/ Tick
    \/ Return
    \/ cleanupExpiredTokensAction
    \/ cleanupExpiredTokensActionQuery
    \/ cleanupExpiredTokensActionBatch

(* The query of a sweep succeeds; the batch of a sweep is committed *)
SweepQueried == cleanupExpiredTokensActionQuery /\ ~lastCall'.dbFailed

SweepCommitted == cleanupExpiredTokensActionBatch /\ lastCall'.ret.success

(* The database answers: a sweep whose query succeeds, and one whose batch *)
(* is committed, happen infinitely often when they are possible infinitely *)
(* often.                                                                  *)
DatabaseAnswers == SF_vars(SweepQueried) /\ SF_vars(SweepCommitted)

SweepSpec ==
    /\ SweepInit
    /\ [][SweepNext]_vars
    /\ WF_vars(Return)
    /\ WF_vars(cleanupExpiredTokensAction)
    /\ WF_vars(cleanupExpiredTokensActionQuery)
    /\ WF_vars(cleanupExpiredTokensActionBatch)

-----------------------------------------------------------------------------
(* What the properties below speak of *)

TerminalStatuses == {"approved", "rejected", "expired"}

(* A step in which a call returns: its response is lastCall' *)
Returns(op) == lastCall = NoCall /\ lastCall'.op = op

ApproveOps == {"approveTokenAction", "approveReferralCommissionAction"}

Events(call) == {call.events[k] : k \in DOMAIN call.events}

Signals(call) == Events(call) \ {Write}

UniformFailure(ret) == ret.kind = "object" /\ ret.success = FALSE /\ ret.error # ""

MigratedFrom(tx) == {i \in ExistingIds : tokens[i].originalTransactionId = tx}

-----------------------------------------------------------------------------
(* C1: a token's status changes only from 'pending', and only to           *)
(* 'approved', 'rejected' or 'expired'; a terminal status never changes    *)
(* again, whichever operation runs.                                        *)
C1_StatusLeavesOnlyPending ==
    [][\A i \in ExistingIds :
          tokens'[i].status # tokens[i].status
              => /\ tokens[i].status = "pending"
                 /\ tokens'[i].status \in TerminalStatuses]_vars

(* C2: whatever approveTokenAction and approveReferralCommissionAction     *)
(* calls run on a token, one after the other or at once, the owner's       *)
(* balance is adjusted for that token at most once.                        *)
C2_CreditedAtMostOnce ==
    \A i \in ExistingIds : credited[i] <= 1

(* C3: every step that changes a user's balance is the step in which a     *)
(* token of that user goes from 'pending' to 'approved', and the change is *)
(* +amount for deposit, bonus, referral_commission, cashback and -amount   *)
(* for withdrawal.                                                         *)
C3_BalanceChangesOnlyWithApproval ==
    [][\A u \in DOMAIN users :
          users'[u].balance # users[u].balance
              => \E i \in ExistingIds :
                    /\ tokens[i].userId = u
                    /\ tokens[i].status = "pending"
                    /\ tokens'[i].status = "approved"
                    /\ tokens[i].type \in BalanceTypes
                    /\ users'[u].balance - users[u].balance
                          = BalanceDelta(tokens[i].type, tokens[i].amount)]_vars

(* C4: approval is all-or-nothing: after every step, a token of a          *)
(* balance-affecting type is 'approved' only if its balance effect was     *)
(* applied to its owner (tokens migrated from the legacy ledger aside,     *)
(* whose effect the legacy ledger applied), and an approval that returns   *)
(* success:false has changed no token and no user.                         *)
C4_ApprovedOnlyIfCredited ==
    [][/\ \A i \in DOMAIN tokens' :
            /\ tokens'[i].type \in BalanceTypes
            /\ tokens'[i].status = "approved"
            /\ tokens'[i].originalTransactionId = ""
            => credited'[i] >= 1
       /\ \A op \in ApproveOps :
            Returns(op) /\ ~lastCall'.ret.success => UNCHANGED <<tokens, users>>]_vars

(* C5: a successful processDepositReferralAction call with a referral code *)
(* creates exactly one token: a 'pending' 'referral_commission' of the     *)
(* user who has that code, of amount 5% of depositAmount, and returns that *)
(* amount as commissionAmount.                                             *)
C5_CommissionIsFivePercent ==
    [][Returns("processDepositReferralAction") /\ lastCall'.ret.success /\ lastCall'.args.code # NoCode
          => /\ Len(tokens') = Len(tokens) + 1
             /\ \A i \in ExistingIds : tokens'[i] = tokens[i]
             /\ LET t == tokens'[Len(tokens')] IN
                  /\ t.type = "referral_commission"
                  /\ t.status = "pending"
                  /\ t.userId \in DOMAIN users
                  /\ users[t.userId].referralCode = lastCall'.args.code
                  /\ t.amount * 100 = 5 * lastCall'.args.amount
                  /\ lastCall'.ret.value = t.amount]_vars

C5_Witness ==
    /\ lastCall.op = "processDepositReferralAction"
    /\ lastCall.ret.success
    /\ lastCall.args.code = "R1"
    /\ lastCall.ret.value = 150
    /\ \E i \in ExistingIds : tokens[i].type = "referral_commission" /\ tokens[i].userId = "u1"

(* C6 as claimed: a call in which a database call failed returns           *)
(* {success:false, error:<string>}, whatever the operation.                *)
C6_UniformFailureEverywhere ==
    lastCall.dbFailed => UniformFailure(lastCall.ret)

(* C6, amended: a call in which a database call failed returns             *)
(* {success:false, error:<string>}, except getUserReferralStatsAction,     *)
(* which returns null; no call throws.                                     *)
C6_UniformFailureButStats ==
    lastCall.dbFailed =>
        IF lastCall.op = "getUserReferralStatsAction"
        THEN lastCall.ret = Null
        ELSE UniformFailure(lastCall.ret)

C6_Witness ==
    /\ lastCall.dbFailed
    /\ lastCall.op = "migrateTransactionToTokenAction"
    /\ lastCall.events = <<Write>>
    /\ UniformFailure(lastCall.ret)

(* C7: no step removes a token, and the step in which                      *)
(* cleanupExpiredTokensAction commits sets the tokens it swept to          *)
(* 'expired' with expiredAt set, keeps their userId, type and amount, and  *)
(* leaves the other tokens as they were.                                   *)
C7_TokensAreMarkedNotDeleted ==
    [][/\ Len(tokens') >= Len(tokens)
       /\ Returns("cleanupExpiredTokensAction") /\ lastCall'.ret.success /\ lastCall'.ret.value > 0
            => \E c \in Calls :
                  /\ c.op = "cleanupExpiredTokensAction"
                  /\ inflight' = inflight (-) SetToBag({c})
                  /\ Cardinality(c.snapshot) = lastCall'.ret.value
                  /\ Len(tokens') = Len(tokens)
                  /\ \A i \in ExistingIds :
                        IF i \in c.snapshot
                        THEN /\ tokens'[i].status = "expired"
                             /\ tokens'[i].expiredAt = c.at
                             /\ tokens'[i].expiredAt # NoTime
                             /\ tokens'[i].userId = tokens[i].userId
                             /\ tokens'[i].type = tokens[i].type
                             /\ tokens'[i].amount = tokens[i].amount
                        ELSE tokens'[i] = tokens[i]]_vars

C7_Witness ==
    /\ lastCall.op = "cleanupExpiredTokensAction"
    /\ lastCall.ret.success
    /\ lastCall.ret.value = 2
    /\ \A i \in ExistingIds : tokens[i].status = "expired" /\ tokens[i].expiredAt = 30

(* C8: for every legacy transaction, once the migrations of it that were   *)
(* called have returned, at most one token has it as                       *)
(* metadata.originalTransactionId, and the transaction's migratedToToken    *)
(* names that token.                                                       *)
C8_MigratedOnce ==
    \A tx \in DOMAIN transactions :
        (\A c \in Calls : c.op = "migrateTransactionToTokenAction" => c.transactionId # tx)
            => /\ Cardinality(MigratedFrom(tx)) <= 1
               /\ \A i \in MigratedFrom(tx) : transactions[tx].migratedToToken = i

(* C9: in every call, the cache invalidations come after the call's        *)
(* writes; a call that changed a document has written; a successful call   *)
(* that wrote has invalidated; a call that returns success:false, and a    *)
(* call that wrote nothing, have invalidated nothing.                      *)
C9_InvalidationFollowsWrite ==
    [][lastCall = NoCall /\ lastCall' # NoCall
          => LET e == lastCall'.events IN
             /\ \A i, j \in DOMAIN e : i < j => ~(e[i] # Write /\ e[j] = Write)
             /\ <<tokens, users, transactions>>' # <<tokens, users, transactions>>
                    => Write \in Events(lastCall')
             /\ lastCall'.ret.success /\ Write \in Events(lastCall')
                    => Signals(lastCall') # {}
             /\ ~lastCall'.ret.success => Signals(lastCall') = {}
             /\ Write \notin Events(lastCall') => Signals(lastCall') = {}]_vars

C9_Witness ==
    /\ lastCall.op = "approveTokenAction"
    /\ lastCall.ret.success
    /\ lastCall.events = TokenPages
    /\ \E i \in ExistingIds : tokens[i].status = "approved" /\ tokens[i].approvedBy = AdminId

(* C10: cleanupExpiredTokensAction turns to 'expired' only tokens that,    *)
(* when its write is applied, are 'pending' with an expiresAt not later    *)
(* than the sweep's timestamp.                                             *)
C10_ExpiresOnlyPendingAndDue ==
    [][Returns("cleanupExpiredTokensAction")
          => \A i \in ExistingIds :
                tokens'[i] # tokens[i]
                    => /\ tokens[i].status = "pending"
                       /\ tokens[i].expiresAt # NoTime
                       /\ tokens[i].expiresAt <= tokens'[i].expiredAt]_vars

(* C11: approveTokenAction on a pending token, when no database call       *)
(* fails, succeeds: the token becomes 'approved' with approvedBy the given *)
(* admin id, and the owner gets the effect of the token's type: for        *)
(* deposit, bonus, referral_commission and cashback the balance and        *)
(* '<type>Total' go up by the amount; for withdrawal the balance goes down *)
(* by the amount and withdrawalTotal goes up by it; for raffle_entry no    *)
(* user document changes.                                                  *)
C11_ApproveAppliesEffect ==
    [][\A c \in Calls :
          /\ c.op = "approveTokenAction"
          /\ Returns("approveTokenAction")
          /\ inflight' = inflight (-) SetToBag({c})
          /\ ~lastCall'.dbFailed
          => /\ lastCall'.ret.success
             /\ tokens'[c.tokenId].status = "approved"
             /\ tokens'[c.tokenId].approvedBy = AdminId
             /\ \A u \in DOMAIN users :
                   IF u # c.userId \/ c.type = "raffle_entry"
                   THEN users'[u] = users[u]
                   ELSE IF c.type = "withdrawal"
                   THEN /\ users'[u].balance = users[u].balance - c.amount
                        /\ users'[u].withdrawalTotal = users[u].withdrawalTotal + c.amount
                   ELSE /\ users'[u].balance = users[u].balance + c.amount
                        /\ users'[u][TotalField(c.type)] = users[u][TotalField(c.type)] + c.amount]_vars

(* C12: approveTokenAction and approveReferralCommissionAction on a token  *)
(* id that does not exist return success:false with 'Token bulunamadi',    *)
(* and on a token that is not 'pending' return success:false with 'Token   *)
(* zaten islenmis' (the source's strings, in ASCII); such a call never     *)
(* reaches its transaction, and changes no token and no user.              *)
C12_RefusesMissingAndProcessed ==
    [][\A op \in ApproveOps :
          /\ Returns(op) /\ inflight' = inflight /\ ~lastCall'.dbFailed
              => LET id == lastCall'.args.tokenId IN
                 /\ tokens' = tokens
                 /\ users' = users
                 /\ lastCall'.ret.kind = "object"
                 /\ ~lastCall'.ret.success
                 /\ lastCall'.ret.error = IF id \notin ExistingIds THEN "Token bulunamadi"
                                                                  ELSE "Token zaten islenmis"
                 /\ id \in ExistingIds => tokens[id].status # "pending"
          /\ \A c \in BagToSet(inflight') :
                c.op = op /\ CopiesIn(c, inflight') > CopiesIn(c, inflight)
                    => /\ c.tokenId \in ExistingIds
                       /\ tokens[c.tokenId].status = "pending"]_vars

C12_Witness ==
    /\ lastCall.op = "approveReferralCommissionAction"
    /\ ~lastCall.dbFailed
    /\ lastCall.ret = Err("Token zaten islenmis")
    /\ lastCall.args.tokenId \in ExistingIds
    /\ tokens[lastCall.args.tokenId].status = "rejected"

(* C13: a processDepositReferralAction call with a referral code either    *)
(* succeeds and, in one step, creates the pending commission token of the  *)
(* referrer, expiring 30 days after the time it is stamped with, adds the  *)
(* commission to the referrer's totalCommissions and pendingCommissions    *)
(* and 1 to totalReferrals, and sets the referred user's referredBy to the *)
(* referrer and its referralProcessedAt to the same time, changing nothing *)
(* else; or fails and leaves every token and every user as they were.      *)
C13_ReferralAllOrNothing ==
    [][Returns("processDepositReferralAction") /\ lastCall'.args.code # NoCode
          => LET a == lastCall'.args
                 k == lastCall'.ret.value
             IN  IF lastCall'.ret.success
                 THEN \E r \in DOMAIN users :
                        /\ users[r].referralCode = a.code
                        /\ a.userId \in DOMAIN users
                        /\ Len(tokens') = Len(tokens) + 1
                        /\ \A i \in ExistingIds : tokens'[i] = tokens[i]
                        /\ LET t == tokens'[Len(tokens')] IN
                             /\ t.userId = r
                             /\ t.type = "referral_commission"
                             /\ t.status = "pending"
                             /\ t.amount = k
                             /\ t.createdAt <= now
                             /\ t.expiresAt = t.createdAt + 30
                        /\ LET was == [users EXCEPT ![a.userId].referredBy = users'[a.userId].referredBy,
                                                    ![a.userId].referralProcessedAt =
                                                        tokens'[Len(tokens')].createdAt,
                                                    ![r].referralStats = users'[r].referralStats]
                           IN  users' = was
                        /\ users'[a.userId].referredBy = r
                        /\ users'[r].referralStats.totalCommissions
                              = users[r].referralStats.totalCommissions + k
                        /\ users'[r].referralStats.pendingCommissions
                              = users[r].referralStats.pendingCommissions + k
                        /\ users'[r].referralStats.totalReferrals
                              = users[r].referralStats.totalReferrals + 1
                        /\ users'[r].referralStats.approvedCommissions
                              = users[r].referralStats.approvedCommissions
                 ELSE tokens' = tokens /\ users' = users]_vars

C13_Witness ==
    /\ lastCall.op = "processDepositReferralAction"
    /\ lastCall.ret.success
    /\ lastCall.args.userId = "u2"
    /\ users["u2"].referredBy = "u1"
    /\ users["u1"].referralStats.totalReferrals = 1
    /\ users["u1"].referralStats.pendingCommissions = 150
    /\ \E i \in ExistingIds : /\ tokens[i].type = "referral_commission"
                               /\ tokens[i].status = "pending"
                               /\ tokens[i].expiresAt = now + 30

(* C14: processDepositReferralAction called without a referral code        *)
(* returns {success:true}, and called with a code that no user has returns *)
(* success:false with 'Gecersiz referral kodu' (the source's string, in    *)
(* ASCII); in both cases it writes nothing: every token, user and          *)
(* transaction is as it was and no cache entry is invalidated.             *)
C14_NoReferralNoWrite ==
    [][Returns("processDepositReferralAction")
          => LET a == lastCall'.args
                 noCode == a.code = ""
                 noMatch == ~lastCall'.dbFailed /\ \A u \in DOMAIN users : users[u].referralCode # a.code
             IN  /\ noCode => lastCall'.ret.kind = "object" /\ lastCall'.ret.success
                 /\ ~noCode /\ noMatch
                       => /\ lastCall'.ret.kind = "object"
                          /\ ~lastCall'.ret.success
                          /\ lastCall'.ret.error = "Gecersiz referral kodu"
                 /\ noCode \/ noMatch
                       => /\ tokens' = tokens
                          /\ users' = users
                          /\ transactions' = transactions
                          /\ lastCall'.events = << >>]_vars

C14_Witness ==
    /\ lastCall.op = "processDepositReferralAction"
    /\ lastCall.args.code = "BAD"
    /\ ~lastCall.dbFailed
    /\ lastCall.ret = Err("Gecersiz referral kodu")
    /\ \A u \in DOMAIN users : users[u].referredBy = ""

(* C15: a successful rejectTokenAction sets the token's status to          *)
(* 'rejected' with rejectedBy and rejectionReason as given, and changes    *)
(* nothing else of it and no other token; a rejectTokenAction call changes *)
(* no user; on a token id that does not exist it returns success:false and *)
(* creates no token.                                                       *)
C15_RejectMarksTokenOnly ==
    [][Returns("rejectTokenAction")
          => LET id == lastCall'.args.tokenId IN
             /\ users' = users
             /\ Len(tokens') = Len(tokens)
             /\ id \notin ExistingIds => ~lastCall'.ret.success /\ lastCall'.ret.kind = "object"
             /\ IF lastCall'.ret.success
                THEN /\ id \in ExistingIds
                     /\ tokens'[id].status = "rejected"
                     /\ tokens'[id].rejectedBy = "admin"
                     /\ tokens'[id].rejectionReason = "reason"
                     /\ \A f \in DOMAIN tokens[id] \ {"status", "rejectedBy", "rejectionReason"} :
                           tokens'[id][f] = tokens[id][f]
                     /\ \A i \in ExistingIds \ {id} : tokens'[i] = tokens[i]
                ELSE tokens' = tokens]_vars

C15_Witness ==
    /\ lastCall.op = "rejectTokenAction"
    /\ lastCall.ret.success
    /\ tokens[lastCall.args.tokenId].status = "rejected"
    /\ tokens[lastCall.args.tokenId].rejectedBy = AdminId
    /\ tokens[lastCall.args.tokenId].rejectionReason = RejectReason
    /\ tokens[lastCall.args.tokenId].userId = "u1"
    /\ users["u1"].balance = 200

(* C16: a successful getUserUnifiedTokensAction returns tokens of the      *)
(* given user only, each of the given tokenType when one is given and of   *)
(* the given status when one is given (also when both are given), no token *)
(* twice, at most limitCount of them, newest first.                        *)
C16_ListMatchesEveryFilter ==
    [][Returns("getUserUnifiedTokensAction") /\ lastCall'.ret.success
          => LET a == lastCall'.args
                 l == lastCall'.ret.list
             IN  /\ Len(l) <= a.limitCount
                 /\ \A k \in DOMAIN l :
                       /\ l[k] \in ExistingIds
                       /\ tokens[l[k]].userId = a.userId
                       /\ a.tokenType # "" => tokens[l[k]].type = a.tokenType
                       /\ a.status # "" => tokens[l[k]].status = a.status
                 /\ \A j, k \in DOMAIN l :
                       j < k => l[j] # l[k] /\ tokens[l[j]].createdAt >= tokens[l[k]].createdAt]_vars

(* The signed amounts of the approved tokens of user u among the first n   *)
(* tokens: + for deposit, bonus, referral_commission and cashback, - for   *)
(* withdrawal.  Tokens migrated from the legacy ledger are left out: their *)
(* effect was applied by the legacy ledger.                                *)
RECURSIVE ApprovedSum(_, _)
ApprovedSum(u, n) ==
    IF n = 0 THEN 0
    ELSE ApprovedSum(u, n - 1)
         + (IF /\ tokens[n].userId = u
               /\ tokens[n].status = "approved"
               /\ tokens[n].originalTransactionId = ""
            THEN IF tokens[n].type \in {"deposit", "bonus", "referral_commission", "cashback"}
                 THEN tokens[n].amount
                 ELSE IF tokens[n].type = "withdrawal" THEN 0 - tokens[n].amount ELSE 0
            ELSE 0)

(* C18: in every reachable state each user's balance is the initial        *)
(* balance, 0, plus the amounts of the user's 'approved' deposit, bonus,   *)
(* referral_commission and cashback tokens, minus the amounts of the       *)
(* user's 'approved' withdrawal tokens (migrated tokens aside).            *)
C18_LedgerConservation ==
    \A u \in DOMAIN users : users[u].balance = ApprovedSum(u, Len(tokens))

(* The tokens whose expiresAt has passed *)
Due == {i \in ExistingIds : tokens[i].expiresAt # NoTime /\ tokens[i].expiresAt <= now}

====
